---- MODULE Spec2Model ----
(***************************************************************************)
(* A model of queue.c: a queue of strings kept as a singly linked list     *)
(* (q_new, q_free, q_insert_head, q_insert_tail, q_remove_head, q_size,    *)
(* q_reverse, q_sort) with its merge sort (split_list, merge, merge_sort)  *)
(* and its natural-order comparator (strnatcmp, compare_int).              *)
(*                                                                         *)
(* Pointers are node numbers, NULL is 0.  A string is a sequence of        *)
(* character codes without its terminator; the buffer that holds it is     *)
(* the string, a 0 byte, and one byte of whatever memory follows the       *)
(* buffer (junk), so that a read past the terminator is a read the model   *)
(* sees.  A read past that byte ends the run (pc = "crashed").             *)
(*                                                                         *)
(* Spec is the queue interface called in any order; SpecScenario the sort  *)
(* of "3", "1", "2", "10", "20"; SpecCmp is strnatcmp called on its own on  *)
(* every pair of short strings; SpecSplit is split_list called on its own  *)
(* on the lists the inserts build.                                         *)
(***************************************************************************)
EXTENDS Integers, Sequences, FiniteSets, TLC

\* ------------------------------------------------------------------ bounds
\* Number of list elements (and of string buffers) the heap can hold.
MaxNodes == 3
\* Largest bufsize passed to q_remove_head.
MaxCap == 3

NULL == 0
NodeIds == 1..MaxNodes

\* The strings the caller inserts: "", "2", "10", "1 " (the empty string, two
\* that natural order and byte order rank differently, one with a trailing
\* blank).
Texts == { <<>>, <<50>>, <<49, 48>>, <<49, 32>> }

\* The bytes that may follow a string buffer in memory: a 0, 'a', 'b'.
JunkBytes == {0, 97, 98}

\* size_t arithmetic is modulo 2^SizeBits (64 in the build; a narrower word
\* keeps the wrapped value of bufsize - 1 a number TLC can hold).
SizeBits == 16
SizeMod == 2 ^ SizeBits

Max(x, y) == IF x >= y THEN x ELSE y
Min(x, y) == IF x <= y THEN x ELSE y

\* ------------------------------------------------------------ <ctype.h>
isdigit(c) == c \in 48..57
isspace(c) == c = 32 \/ c \in 9..13

\* The bytes of a buffer holding string s, followed by the byte j.
Image(s, j) == s \o <<0, j>>

\* ---------------------------------------------------- compare_int (188-209)
\* A comparison returns its result, the highest index it read in each
\* buffer (1-based: Len(s) + 1 is the terminator) and whether it read
\* outside the bytes the model knows.
Cmp(r, ra, rb) == [res |-> r, ra |-> ra, rb |-> rb, fault |-> FALSE]
CmpFault(ra, rb) == [res |-> 0, ra |-> ra, rb |-> rb, fault |-> TRUE]

sign(x, y) == IF x <= y THEN (IF x < y THEN -1 ELSE 0) ELSE 1

\* compare_int without 205-208: the run that has digits left does not win.
RECURSIVE compare_int_loop_no_length(_, _, _, _, _, _)
compare_int_loop_no_length(A, i, B, j, lead_zero, result) ==
    IF i > Len(A) THEN CmpFault(i, j - 1)
    ELSE IF j > Len(B) THEN CmpFault(i, j)
    ELSE IF isdigit(A[i]) /\ isdigit(B[j])
    THEN IF result = 0
         THEN compare_int_loop_no_length(A, i + 1, B, j + 1, lead_zero,
                                         sign(A[i], B[j]))
         ELSE IF lead_zero
              THEN Cmp(result, i, j)
              ELSE compare_int_loop_no_length(A, i + 1, B, j + 1, lead_zero,
                                              result)
    ELSE Cmp(result, i, j)

RECURSIVE compare_int_loop(_, _, _, _, _, _)
compare_int_loop(A, i, B, j, lead_zero, result) ==
    IF i > Len(A) THEN CmpFault(i, j - 1)
    ELSE IF j > Len(B) THEN CmpFault(i, j)
    ELSE IF isdigit(A[i]) /\ isdigit(B[j])
    THEN IF result = 0
         THEN compare_int_loop(A, i + 1, B, j + 1, lead_zero, sign(A[i], B[j]))
         ELSE IF lead_zero
              THEN Cmp(result, i, j)
              ELSE compare_int_loop(A, i + 1, B, j + 1, lead_zero, result)
    ELSE IF isdigit(A[i]) /\ ~isdigit(B[j]) THEN Cmp(1, i, j)
    ELSE IF ~isdigit(A[i]) /\ isdigit(B[j]) THEN Cmp(-1, i, j)
    ELSE Cmp(result, i, j)

compare_int(A, i, B, j) ==
    compare_int_loop(A, i, B, j, A[i] = 48 \/ B[j] = 48, 0)

\* ------------------------------------------------------ strnatcmp (218-242)
\* for (; isspace(*a); a++) : the index of the first byte that is no blank,
\* or Len(M) + 1 when the scan runs off the bytes the model knows.
RECURSIVE skip_space(_, _)
skip_space(M, i) ==
    IF i <= Len(M) /\ isspace(M[i]) THEN skip_space(M, i + 1) ELSE i

RECURSIVE strnatcmp_loop(_, _, _, _, _, _)
strnatcmp_loop(A, i, B, j, ra, rb) ==
    \* the loop condition *a && *b
    IF i > Len(A) THEN CmpFault(i, rb)
    ELSE IF A[i] = 0 THEN Cmp(0, Max(ra, i), rb)
    ELSE IF j > Len(B) THEN CmpFault(i, j)
    ELSE IF B[j] = 0 THEN Cmp(0, Max(ra, i), Max(rb, j))
    ELSE
      LET i2 == skip_space(A, i)
          j2 == skip_space(B, j)
      IN IF i2 > Len(A) THEN CmpFault(i2, Max(rb, j))
         ELSE IF j2 > Len(B) THEN CmpFault(i2, j2)
         ELSE
           LET c == IF isdigit(A[i2]) /\ isdigit(B[j2])
                    THEN compare_int(A, i2, B, j2)
                    ELSE IF A[i2] < B[j2] THEN Cmp(-1, i2, j2)
                    ELSE IF A[i2] > B[j2] THEN Cmp(1, i2, j2)
                    ELSE Cmp(0, i2, j2)
           IN IF c.fault \/ c.res # 0
              THEN [c EXCEPT !.ra = Max(@, ra), !.rb = Max(@, rb)]
              ELSE strnatcmp_loop(A, i2 + 1, B, j2 + 1,
                                  Max(c.ra, ra), Max(c.rb, rb))

strnatcmp(A, B) == strnatcmp_loop(A, 1, B, 1, 0, 0)

\* strcmp, the comparator merge has commented out (278, 288).
RECURSIVE strcmp_loop(_, _, _)
strcmp_loop(A, B, i) ==
    IF A[i] # B[i] THEN sign(A[i], B[i])
    ELSE IF A[i] = 0 THEN 0
    ELSE strcmp_loop(A, B, i + 1)

strcmp(A, B) == Cmp(strcmp_loop(A, B, 1), 0, 0)

\* ------------------------------------------------------------------ state
VARIABLES
    q,        \* the queue handle q_new returned: NULL, or 1 for the queue record
    qrec,     \* whether the queue record is allocated
    head,     \* q->head
    tail,     \* q->tail
    size,     \* q->size
    next,     \* next[n]: the next field of list element n
    value,    \* value[n]: the value field of list element n (a buffer, or NULL)
    mem,      \* mem[b]: the string held by buffer b
    nodes,    \* the list elements malloc has handed out and free has not taken back
    strs,     \* the string buffers malloc has handed out and free has not taken back
    junk,     \* junk[b]: the byte after buffer b's terminator, once a sort read it
    pc,       \* "run", "crashed" (a read or write outside memory ended the
              \* run), "freed" (after q_free), "split" (inside merge_sort,
              \* after split_list)
    call,     \* the last call: its name, its return value, the string it
              \* inserted (if it did) and the sp, bufsize given to q_remove_head
    buf,      \* what the last q_remove_head wrote to *sp
    pre,      \* q->head, q->tail, q->size as they were before the last call,
              \* kept when that call was a q_insert_head that returned true
    balance,  \* inserts that returned true minus removes that returned true
    abs,      \* the queue as an abstract sequence of strings
    dblfree,  \* whether free was ever given a block that was not allocated
    cmpA,     \* the string a given to the last call of strnatcmp made on its own
    cmpB,     \* the string b given to it
    out       \* what the last call of strnatcmp or split_list made on its own
              \* returned, or NoOut

heapvars == <<head, tail, size, next, value, mem, nodes, strs>>
vars == <<q, qrec, head, tail, size, next, value, mem, nodes, strs, junk, pc,
          call, buf, pre, balance, abs, dblfree, cmpA, cmpB, out>>
helpervars == <<cmpA, cmpB, out>>

\* No call of strnatcmp or split_list on its own has returned.
NoOut == [op |-> "none"]

\* A buffer nothing was written to.
Untouched == [str |-> <<>>, written |-> 0]

Call(o, s, sp, n, r) == [op |-> o, s |-> s, sp |-> sp, bufsize |-> n, ret |-> r]

\* The list elements met by following nx from h, at most fuel of them.
RECURSIVE Walk(_, _, _)
Walk(nx, h, fuel) ==
    IF h = NULL \/ fuel = 0 THEN <<>> ELSE <<h>> \o Walk(nx, nx[h], fuel - 1)

\* The list from q->head, and the strings it holds.
Order == Walk(next, head, Cardinality(DOMAIN next) + 1)
Contents == [k \in 1..Len(Order) |-> mem[value[Order[k]]]]

Range(f) == {f[k] : k \in DOMAIN f}

RECURSIVE Reverse(_)
Reverse(s) == IF s = <<>> THEN <<>> ELSE Append(Reverse(Tail(s)), Head(s))

\* ---------------------------------------------------------- q_new (13-22)
\* malloc either fails (q = NULL) or gives the record, which q_new clears.
InitHeap(ids) ==
    /\ q \in {NULL, 1}
    /\ qrec = (q # NULL)
    /\ head = NULL
    /\ tail = NULL
    /\ size = 0
    /\ next = [n \in ids |-> NULL]
    /\ value = [n \in ids |-> NULL]
    /\ mem = [n \in ids |-> <<>>]
    /\ nodes = {}
    /\ strs = {}
    /\ junk = [n \in ids |-> NULL - 1]
    /\ pc = "run"
    /\ call = Call("new", <<>>, FALSE, 0, q # NULL)
    /\ buf = Untouched
    /\ pre = [head |-> NULL, tail |-> NULL, size |-> 0]
    /\ balance = 0
    /\ abs = <<>>
    /\ dblfree = FALSE

\* Neither strnatcmp nor split_list is called on its own.
NoHelper ==
    /\ cmpA = <<>>
    /\ cmpB = <<>>
    /\ out = NoOut

Init == InitHeap(NodeIds) /\ NoHelper

\* q_size (152-155)
q_size == IF q # NULL THEN size ELSE 0

\* What malloc may return: NULL, or a free block.  Which free block it is
\* makes no difference to the program (blocks are told apart by their
\* numbers alone), so malloc hands out the lowest-numbered one.
Lowest(S) == {x \in S : \A y \in S : x <= y}
MallocNode == {NULL} \cup Lowest(DOMAIN next \ nodes)
\* The buffer of element newh is numbered after it.
MallocStr(newh) ==
    {NULL} \cup (IF newh # NULL THEN {newh} \ strs
                               ELSE Lowest(DOMAIN mem \ strs))

\* free(p) on the set of live blocks.
Free(live, p) == live \ {p}

Snapshot == [head |-> head, tail |-> tail, size |-> size]
NoSnapshot == [head |-> NULL, tail |-> NULL, size |-> 0]

\* The byte after a buffer is not known until a comparison reads it, and is
\* not known any more once malloc or free has run (the allocator may write
\* there, and so may the next string).
Unread == NULL - 1
NoJunk == [b \in DOMAIN junk |-> Unread]

\* The bookkeeping every call does: what was called, and the fields before it.
Log(o, s, sp, n, r) ==
    /\ call' = Call(o, s, sp, n, r)
    /\ UNCHANGED helpervars
    /\ pre' = IF o = "insert_head" /\ r THEN Snapshot ELSE NoSnapshot

\* A call that returns without touching the queue or the heap.
NoEffect(o, s, sp, n, r) ==
    /\ Log(o, s, sp, n, r)
    /\ buf' = Untouched
    /\ UNCHANGED <<q, qrec, heapvars, junk, pc, balance, abs, dblfree>>

\* ------------------------------------------------- q_insert_head (49-77)
\* (A failed insert that returns without freeing what malloc did give it.)
InsertCleanup_leak(live, p) == IF p # NULL THEN live \cup {p} ELSE live

\* Lines 59-65: the blocks live after a failed insert released what it got.
InsertCleanup(live, p) == IF p # NULL THEN Free(live \cup {p}, p) ELSE live

\* (A q_insert_head that leaves q->tail alone when the queue was empty.)
LinkHead_tail_kept(newh) ==
    [head |-> newh,
     tail |-> tail,
     next |-> [next EXCEPT ![newh] = head],
     size |-> size + 1]

\* Lines 70-75: the fields and links after newh is put in front.
LinkHead(newh) ==
    [head |-> newh,
     tail |-> IF head = NULL THEN newh ELSE tail,
     next |-> [next EXCEPT ![newh] = head],
     size |-> size + 1]

q_insert_head(s) ==
    /\ pc = "run"
    /\ IF q = NULL
       THEN NoEffect("insert_head", <<>>, FALSE, 0, FALSE)
       ELSE \E newh \in MallocNode : \E news \in MallocStr(newh) :
            IF newh = NULL \/ news = NULL
            THEN /\ Log("insert_head", <<>>, FALSE, 0, FALSE)
                 /\ nodes' = InsertCleanup(nodes, newh)
                 /\ strs' = InsertCleanup(strs, news)
                 /\ buf' = Untouched
                 /\ junk' = NoJunk
                 /\ UNCHANGED <<q, qrec, head, tail, size, next, value, mem,
                                pc, balance, abs, dblfree>>
            ELSE LET l == LinkHead(newh) IN
                 /\ Log("insert_head", s, FALSE, 0, TRUE)
                 /\ nodes' = nodes \cup {newh}
                 /\ strs' = strs \cup {news}
                 /\ mem' = [mem EXCEPT ![news] = s]
                 /\ value' = [value EXCEPT ![newh] = news]
                 /\ next' = l.next
                 /\ head' = l.head
                 /\ tail' = l.tail
                 /\ size' = l.size
                 /\ balance' = balance + 1
                 /\ abs' = <<s>> \o abs
                 /\ buf' = Untouched
                 /\ junk' = NoJunk
                 /\ UNCHANGED <<q, qrec, pc, dblfree>>

\* ------------------------------------------------ q_insert_tail (86-116)
\* (A q_insert_tail that never writes q->tail->next.)
LinkTail_not_chained(newh) ==
    [head |-> IF head = NULL THEN newh ELSE head,
     tail |-> newh,
     next |-> [next EXCEPT ![newh] = NULL],
     size |-> size + 1]

\* Lines 108-114: the fields and links after newh is put at the end.
LinkTail(newh) ==
    [head |-> IF head = NULL THEN newh ELSE head,
     tail |-> newh,
     next |-> IF head = NULL
              THEN [next EXCEPT ![newh] = NULL]
              ELSE [next EXCEPT ![tail] = newh, ![newh] = NULL],
     size |-> size + 1]

q_insert_tail(s) ==
    /\ pc = "run"
    /\ IF q = NULL
       THEN NoEffect("insert_tail", <<>>, FALSE, 0, FALSE)
       ELSE \E newh \in MallocNode : \E news \in MallocStr(newh) :
            IF newh = NULL \/ news = NULL
            THEN /\ Log("insert_tail", <<>>, FALSE, 0, FALSE)
                 /\ nodes' = InsertCleanup(nodes, newh)
                 /\ strs' = InsertCleanup(strs, news)
                 /\ buf' = Untouched
                 /\ junk' = NoJunk
                 /\ UNCHANGED <<q, qrec, head, tail, size, next, value, mem,
                                pc, balance, abs, dblfree>>
            ELSE LET l == LinkTail(newh) IN
                 /\ Log("insert_tail", s, FALSE, 0, TRUE)
                 /\ nodes' = nodes \cup {newh}
                 /\ strs' = strs \cup {news}
                 /\ mem' = [mem EXCEPT ![news] = s]
                 /\ value' = [value EXCEPT ![newh] = news]
                 /\ next' = l.next
                 /\ head' = l.head
                 /\ tail' = l.tail
                 /\ size' = l.size
                 /\ balance' = balance + 1
                 /\ abs' = Append(abs, s)
                 /\ buf' = Untouched
                 /\ junk' = NoJunk
                 /\ UNCHANGED <<q, qrec, pc, dblfree>>

\* ------------------------------------------------ q_remove_head (126-146)
\* (A copy of bufsize bytes where bufsize - 1 was meant.)
CopyLen_whole_buffer(slen, bufsize) ==
    IF slen >= bufsize THEN bufsize % SizeMod ELSE slen

\* Line 138: the count given to strncpy, in size_t arithmetic.
CopyLen(slen, bufsize) ==
    IF slen >= bufsize THEN (bufsize - 1) % SizeMod ELSE slen

\* Lines 138-139: strncpy(sp, src, n) then sp[n] = 0.  The string *sp holds
\* afterwards, and the number of bytes written from sp[0] on.
WriteBuf(src, bufsize) ==
    LET n == CopyLen(Len(src), bufsize)
    IN [str |-> SubSeq(src, 1, Min(n, Len(src))), written |-> n + 1]

\* (A q_remove_head without its q->size--.)
Unlink_size_kept(tmp) ==
    [head |-> next[tmp],
     tail |-> IF next[tmp] = NULL THEN NULL ELSE tail,
     size |-> size]

\* Lines 130-134: the fields after the first element is unlinked.
Unlink(tmp) ==
    [head |-> next[tmp],
     tail |-> IF next[tmp] = NULL THEN NULL ELSE tail,
     size |-> size - 1]

\* (A q_remove_head that tests q without testing q->head: on an empty queue
\* the read of tmp->next ends the run.)
q_remove_head_unchecked(sp, bufsize) ==
    /\ pc = "run"
    /\ IF q = NULL
       THEN NoEffect("remove_head", <<>>, sp, bufsize, FALSE)
       ELSE IF head = NULL
       THEN /\ Log("remove_head", <<>>, sp, bufsize, FALSE)
            /\ pc' = "crashed"
            /\ buf' = Untouched
            /\ UNCHANGED <<q, qrec, heapvars, junk, balance, abs, dblfree>>
       ELSE LET tmp == head
                u == Unlink(tmp)
                w == WriteBuf(mem[value[tmp]], bufsize)
            IN \/ /\ Log("remove_head", <<>>, sp, bufsize, TRUE)
                  /\ head' = u.head
                  /\ tail' = u.tail
                  /\ size' = u.size
                  /\ buf' = IF sp THEN w ELSE Untouched
                  /\ dblfree' = (dblfree \/ value[tmp] \notin strs
                                         \/ tmp \notin nodes)
                  /\ strs' = Free(strs, value[tmp])
                  /\ nodes' = Free(nodes, tmp)
                  /\ mem' = [mem EXCEPT ![value[tmp]] = <<>>]
                  /\ value' = [value EXCEPT ![tmp] = NULL]
                  /\ next' = [next EXCEPT ![tmp] = NULL]
                  /\ balance' = balance - 1
                  /\ abs' = Tail(abs)
                  /\ junk' = NoJunk
                  /\ UNCHANGED <<q, qrec, pc>>
               \* a write outside *sp may as well end the run at line 138,
               \* with the element unlinked and nothing freed
               \/ /\ sp
                  /\ w.written > bufsize
                  /\ Log("remove_head", <<>>, sp, bufsize, FALSE)
                  /\ head' = u.head
                  /\ tail' = u.tail
                  /\ buf' = w
                  /\ pc' = "crashed"
                  /\ UNCHANGED <<q, qrec, size, next, value, mem, nodes, strs,
                                 junk, balance, abs, dblfree>>

q_remove_head(sp, bufsize) ==
    /\ pc = "run"
    /\ IF q = NULL \/ head = NULL
       THEN NoEffect("remove_head", <<>>, sp, bufsize, FALSE)
       ELSE LET tmp == head
                u == Unlink(tmp)
                w == WriteBuf(mem[value[tmp]], bufsize)
            IN \/ /\ Log("remove_head", <<>>, sp, bufsize, TRUE)
                  /\ head' = u.head
                  /\ tail' = u.tail
                  /\ size' = u.size
                  /\ buf' = IF sp THEN w ELSE Untouched
                  /\ dblfree' = (dblfree \/ value[tmp] \notin strs
                                         \/ tmp \notin nodes)
                  /\ strs' = Free(strs, value[tmp])
                  /\ nodes' = Free(nodes, tmp)
                  /\ mem' = [mem EXCEPT ![value[tmp]] = <<>>]
                  /\ value' = [value EXCEPT ![tmp] = NULL]
                  /\ next' = [next EXCEPT ![tmp] = NULL]
                  /\ balance' = balance - 1
                  /\ abs' = Tail(abs)
                  /\ junk' = NoJunk
                  /\ UNCHANGED <<q, qrec, pc>>
               \* a write outside *sp may as well end the run at line 138,
               \* with the element unlinked and nothing freed
               \/ /\ sp
                  /\ w.written > bufsize
                  /\ Log("remove_head", <<>>, sp, bufsize, FALSE)
                  /\ head' = u.head
                  /\ tail' = u.tail
                  /\ buf' = w
                  /\ pc' = "crashed"
                  /\ UNCHANGED <<q, qrec, size, next, value, mem, nodes, strs,
                                 junk, balance, abs, dblfree>>

\* ---------------------------------------------------- q_reverse (164-179)
\* (A reversal loop without its prev = current.)
RECURSIVE reverse_loop_prev_kept(_, _, _)
reverse_loop_prev_kept(nx, current, prev) ==
    IF current = NULL THEN [next |-> nx, prev |-> prev]
    ELSE reverse_loop_prev_kept([nx EXCEPT ![current] = prev], nx[current], prev)

\* The loop of lines 172-177: the links once current has run off the list,
\* and prev, the element it ends on.
RECURSIVE reverse_loop(_, _, _)
reverse_loop(nx, current, prev) ==
    IF current = NULL THEN [next |-> nx, prev |-> prev]
    ELSE reverse_loop([nx EXCEPT ![current] = prev], nx[current], current)

\* (A q_reverse that tests q->head without testing q: on a NULL q the read
\* of q->head ends the run.)
q_reverse_unchecked ==
    /\ pc = "run"
    /\ IF q = NULL
       THEN /\ Log("reverse", <<>>, FALSE, 0, FALSE)
            /\ pc' = "crashed"
            /\ buf' = Untouched
            /\ UNCHANGED <<q, qrec, heapvars, junk, balance, abs, dblfree>>
       ELSE IF head = NULL
       THEN NoEffect("reverse", <<>>, FALSE, 0, TRUE)
       ELSE LET r == reverse_loop(next, head, NULL)
            IN /\ Log("reverse", <<>>, FALSE, 0, TRUE)
               /\ tail' = head
               /\ next' = r.next
               /\ head' = r.prev
               /\ abs' = Reverse(abs)
               /\ buf' = Untouched
               /\ UNCHANGED <<q, qrec, size, value, mem, nodes, strs, junk,
                              pc, balance, dblfree>>

q_reverse ==
    /\ pc = "run"
    /\ IF q = NULL \/ head = NULL
       THEN NoEffect("reverse", <<>>, FALSE, 0, TRUE)
       ELSE LET r == reverse_loop(next, head, NULL)
            IN /\ Log("reverse", <<>>, FALSE, 0, TRUE)
               /\ tail' = head
               /\ next' = r.next
               /\ head' = r.prev
               /\ abs' = Reverse(abs)
               /\ buf' = Untouched
               /\ UNCHANGED <<q, qrec, size, value, mem, nodes, strs, junk,
                              pc, balance, dblfree>>

\* --------------------------------------------------- split_list (247-263)
\* (A split whose loop body runs at most once.)
split_walk_one_step(nx, slow, fast) ==
    IF fast = NULL THEN slow
    ELSE IF nx[fast] = NULL THEN slow
    ELSE nx[slow]

\* The loop of lines 252-258: where slow stands when fast has run off.
RECURSIVE split_walk(_, _, _)
split_walk(nx, slow, fast) ==
    IF fast = NULL THEN slow
    ELSE IF nx[fast] = NULL THEN slow
    ELSE split_walk(nx, nx[slow], nx[nx[fast]])

split_list(nx, h) ==
    LET slow == split_walk(nx, h, nx[h])
    IN [front |-> h, back |-> nx[slow], next |-> [nx EXCEPT ![slow] = NULL]]

\* -------------------------------------------------------- merge (270-302)
\* (The byte-wise comparison of the commented-out lines 278 and 288.)
compare_bytes(M, a, b) == strcmp(M[a], M[b])

\* The comparison merge makes between elements a and b (277, 287); M[n] is
\* the image of the buffer n->value points to.
compare(M, a, b) == strnatcmp(M[a], M[b])

\* (A merge loop that takes from b when a's element is the smaller.)
RECURSIVE merge_loop_flipped(_, _, _, _, _)
merge_loop_flipped(M, nx, tmp, a, b) ==
    IF a # NULL /\ b # NULL
    THEN LET c == compare(M, a, b)
         IN IF c.fault THEN [next |-> nx, fault |-> TRUE]
            ELSE IF c.res > 0
            THEN merge_loop_flipped(M, [nx EXCEPT ![tmp] = a], a, nx[a], b)
            ELSE merge_loop_flipped(M, [nx EXCEPT ![tmp] = b], b, a, nx[b])
    ELSE IF a = NULL THEN [next |-> [nx EXCEPT ![tmp] = b], fault |-> FALSE]
    ELSE [next |-> [nx EXCEPT ![tmp] = a], fault |-> FALSE]

\* The loop of lines 286-296 and the tail of 297-300: the links, or a fault.
RECURSIVE merge_loop(_, _, _, _, _)
merge_loop(M, nx, tmp, a, b) ==
    IF a # NULL /\ b # NULL
    THEN LET c == compare(M, a, b)
         IN IF c.fault THEN [next |-> nx, fault |-> TRUE]
            ELSE IF c.res <= 0
            THEN merge_loop(M, [nx EXCEPT ![tmp] = a], a, nx[a], b)
            ELSE merge_loop(M, [nx EXCEPT ![tmp] = b], b, a, nx[b])
    ELSE IF a = NULL THEN [next |-> [nx EXCEPT ![tmp] = b], fault |-> FALSE]
    ELSE [next |-> [nx EXCEPT ![tmp] = a], fault |-> FALSE]

merge(M, nx, a, b) ==
    IF a = NULL THEN [head |-> b, next |-> nx, fault |-> FALSE]
    ELSE IF b = NULL THEN [head |-> a, next |-> nx, fault |-> FALSE]
    ELSE LET c == compare(M, a, b)
         IN IF c.fault THEN [head |-> a, next |-> nx, fault |-> TRUE]
            ELSE LET h == IF c.res <= 0 THEN a ELSE b
                     r == IF c.res <= 0 THEN merge_loop(M, nx, h, nx[a], b)
                                        ELSE merge_loop(M, nx, h, a, nx[b])
                 IN [head |-> h, next |-> r.next, fault |-> r.fault]

\* --------------------------------------------------- merge_sort (307-318)
RECURSIVE merge_sort(_, _, _)
merge_sort(M, nx, h) ==
    IF h = NULL \/ nx[h] = NULL
    THEN [head |-> h, next |-> nx, fault |-> FALSE]
    ELSE LET s == split_list(nx, h)
             a == merge_sort(M, s.next, s.front)
         IN IF a.fault THEN a
            ELSE LET b == merge_sort(M, a.next, s.back)
                 IN IF b.fault THEN b
                    ELSE merge(M, b.next, a.head, b.head)

\* ------------------------------------------------------- q_sort (325-337)
\* (A q_sort that leaves q->tail where it was.)
last_of_stale(nx, h) == tail

\* Lines 333-335: the element whose next is NULL, walking from h.
RECURSIVE last_of(_, _)
last_of(nx, h) == IF nx[h] = NULL THEN h ELSE last_of(nx, nx[h])

\* The buffers of the list as the comparator reads them, given the bytes jk
\* that follow them.
Images(jk) == [n \in DOMAIN value |->
                 IF value[n] = NULL THEN <<0>>
                 ELSE Image(mem[value[n]],
                            IF jk[value[n]] = Unread THEN 0 ELSE jk[value[n]])]

\* The buffers whose byte after the terminator some comparison in the list
\* reads; the byte after any other buffer is never seen and is left 0.
ReadPast ==
    LET M == Images(NoJunk)
    IN {n \in Range(Order) : \E m \in Range(Order) \ {n} :
          strnatcmp(M[n], M[m]).ra > Len(mem[value[n]]) + 1}

\* The bytes after the buffers once a sort has read those of rp: the ones
\* read before stay as they were, the others are what memory holds (jk).
JunkOf(rp, jk) ==
    [b \in DOMAIN junk |->
       IF b \in rp /\ junk[b] = Unread THEN jk[b] ELSE junk[b]]

q_sort ==
    /\ pc = "run"
    /\ IF q = NULL \/ head = NULL
       THEN NoEffect("sort", <<>>, FALSE, 0, TRUE)
       ELSE \E rp \in {{b \in ReadPast : junk[b] = Unread}} :
            \E jk \in [rp -> JunkBytes] :
            \E j \in {JunkOf(rp, jk)} : \E M \in {Images(j)} :
            \E r \in {merge_sort(M, next, head)} :
               /\ call' = Call("sort", <<>>, FALSE, 0, TRUE)
               /\ pre' = NoSnapshot
               /\ UNCHANGED helpervars
               /\ junk' = j
               /\ buf' = Untouched
               /\ IF r.fault
                  THEN /\ pc' = "crashed"
                       /\ UNCHANGED <<q, qrec, heapvars, balance, abs, dblfree>>
                  ELSE /\ next' = r.next
                       /\ head' = r.head
                       /\ tail' = last_of(r.next, r.head)
                       /\ abs' = [k \in 1..Len(abs) |->
                                    mem[value[Walk(r.next, r.head, Len(abs))[k]]]]
                       /\ UNCHANGED <<q, qrec, size, value, mem, nodes, strs,
                                      pc, balance, dblfree>>

\* --------------------------------------------------------- q_free (25-40)
\* (A q_free without its free(tmp->value).)
q_free_values_kept ==
    /\ pc = "run"
    /\ IF q = NULL
       THEN NoEffect("free", <<>>, FALSE, 0, TRUE)
       ELSE /\ Log("free", <<>>, FALSE, 0, TRUE)
            /\ head' = NULL
            /\ strs' = strs
            /\ nodes' = nodes \ Range(Order)
            /\ dblfree' = (dblfree \/ ~qrec
                           \/ \E n \in Range(Order) :
                                 n \notin nodes \/ value[n] \notin strs)
            /\ mem' = [b \in DOMAIN mem |->
                         IF b \in {value[n] : n \in Range(Order)}
                         THEN <<>> ELSE mem[b]]
            /\ value' = [n \in DOMAIN value |->
                           IF n \in Range(Order) THEN NULL ELSE value[n]]
            /\ next' = [n \in DOMAIN next |->
                          IF n \in Range(Order) THEN NULL ELSE next[n]]
            /\ qrec' = FALSE
            /\ pc' = "freed"
            /\ buf' = Untouched
            /\ junk' = NoJunk
            /\ UNCHANGED <<q, tail, size, balance, abs>>

q_free ==
    /\ pc = "run"
    /\ IF q = NULL
       THEN NoEffect("free", <<>>, FALSE, 0, TRUE)
       ELSE /\ Log("free", <<>>, FALSE, 0, TRUE)
            /\ head' = NULL
            /\ strs' = strs \ {value[n] : n \in Range(Order)}
            /\ nodes' = nodes \ Range(Order)
            /\ dblfree' = (dblfree \/ ~qrec
                           \/ \E n \in Range(Order) :
                                 n \notin nodes \/ value[n] \notin strs)
            /\ mem' = [b \in DOMAIN mem |->
                         IF b \in {value[n] : n \in Range(Order)}
                         THEN <<>> ELSE mem[b]]
            /\ value' = [n \in DOMAIN value |->
                           IF n \in Range(Order) THEN NULL ELSE value[n]]
            /\ next' = [n \in DOMAIN next |->
                          IF n \in Range(Order) THEN NULL ELSE next[n]]
            /\ qrec' = FALSE
            /\ pc' = "freed"
            /\ buf' = Untouched
            /\ junk' = NoJunk
            /\ UNCHANGED <<q, tail, size, balance, abs>>

\* ------------------------------------------------------------ the program
Caps == 0..MaxCap

Next ==
    \/ \E s \in Texts : q_insert_head(s)
    \/ \E s \in Texts : q_insert_tail(s)
    \/ \E sp \in BOOLEAN, bufsize \in Caps : q_remove_head(sp, bufsize)
    \/ q_reverse
    \/ q_sort
    \/ q_free

\* The scenario of five strings put in at the tail and sorted: "3", "1", "2",
\* "10", "20", on a heap that holds five elements.
Scenario == << <<51>>, <<49>>, <<50>>, <<49, 48>>, <<50, 48>> >>

InitScenario == InitHeap(1..Len(Scenario)) /\ NoHelper

NextScenario ==
    \/ \E s \in Range(Scenario) : q_insert_tail(s)
    \/ q_sort

SpecScenario == InitScenario /\ [][NextScenario]_vars

Spec == Init /\ [][Next]_vars

\* ------------------------------------------- strnatcmp called on its own
\* The strings the comparator is tried on: every string of at most MaxStrLen
\* characters out of '0', '1', '2', ' ' and 'a', and the scenario's strings.
MaxStrLen == 3

Alphabet == {48, 49, 50, 32, 97}

CmpTexts == UNION {[1..k -> Alphabet] : k \in 0..MaxStrLen} \cup Range(Scenario)

\* What strnatcmp returned and the highest index it read in each buffer.
CmpOut(r) ==
    [op |-> "strnatcmp", res |-> r.res, ra |-> r.ra, rb |-> r.rb,
     fault |-> r.fault]

\* Whether a run of strnatcmp on a and b read the byte after a terminator.
PastEnd(r, a, b) == r.ra > Len(a) + 1 \/ r.rb > Len(b) + 1

InitCmp ==
    /\ InitHeap({})
    /\ q = NULL
    /\ cmpA \in CmpTexts
    /\ cmpB \in CmpTexts
    /\ out = NoOut

\* strnatcmp(cmpA, cmpB).  A run that stays inside both strings has one
\* result; a run that reads past a terminator sees whatever byte is there.
strnatcmp_call ==
    /\ out = NoOut
    /\ \E r \in {strnatcmp(Image(cmpA, 0), Image(cmpB, 0))} :
           IF PastEnd(r, cmpA, cmpB)
           THEN \E ja, jb \in JunkBytes :
                    out' = CmpOut(strnatcmp(Image(cmpA, ja), Image(cmpB, jb)))
           ELSE out' = CmpOut(r)
    /\ UNCHANGED <<q, qrec, heapvars, junk, pc, call, buf, pre, balance, abs,
                   dblfree, cmpA, cmpB>>

NextCmp == strnatcmp_call

SpecCmp == InitCmp /\ [][NextCmp]_vars

\* ------------------------------------------ split_list called on its own
\* The lists split_list is tried on: the ones q_insert_head and
\* q_insert_tail build out of at most MaxSplit nodes.
MaxSplit == 5

InitSplit == InitHeap(1..MaxSplit) /\ NoHelper

\* split_list(q->head, &front, &back), as merge_sort calls it at 314.  The
\* list it was given is kept in out; the queue's list is cut in two.
split_call ==
    /\ pc = "run"
    /\ q # NULL
    /\ head # NULL
    /\ LET r == split_list(next, head)
       IN /\ next' = r.next
          /\ out' = [op |-> "split_list", list |-> Order,
                     front |-> r.front, back |-> r.back]
    /\ pc' = "split"
    /\ UNCHANGED <<q, qrec, head, tail, size, value, mem, nodes, strs, junk,
                   call, buf, pre, balance, abs, dblfree, cmpA, cmpB>>

NextSplit ==
    \/ q_insert_head(Scenario[1])
    \/ q_insert_tail(Scenario[1])
    \/ split_call

SpecSplit == InitSplit /\ [][NextSplit]_vars

\* =================================================================== claims
\* The queue record is there to be looked at: q_new gave one, no read has
\* gone outside memory, and q_free has not run.
Live == q # NULL /\ pc = "run"

\* C1: after any sequence of inserts (succeeding or failing), removes,
\* reverses and sorts, size is 0 exactly when head and tail are both NULL,
\* the tail of a non-empty queue has no successor, and the next links from
\* head visit exactly size elements, the last of them tail.
C1_Shape ==
    Live =>
      /\ (size = 0) <=> (head = NULL /\ tail = NULL)
      /\ size # 0 => (tail # NULL /\ next[tail] = NULL)
      /\ Len(Order) = size
      /\ size # 0 => Order[Len(Order)] = tail

\* A queue of two left by a remove, whose first element is not the first
\* block malloc gave.
C1_Witness ==
    /\ Live /\ call.op = "remove_head" /\ call.ret
    /\ size = 2 /\ head # 1 /\ tail # head

\* C2: the list is the abstract sequence: q_insert_head puts its string in
\* front, q_insert_tail puts it at the end, q_remove_head takes the first
\* one away and hands it out (as much of it as the buffer holds), so the
\* strings met from head on are always the abstract sequence.
C2_Refines ==
    /\ [](Live => Contents = abs)
    /\ [][(call'.op = "remove_head" /\ call'.ret /\ call'.sp
            /\ call'.bufsize >= 1)
          => /\ buf'.str = SubSeq(Head(abs), 1,
                                  Min(Len(Head(abs)), call'.bufsize - 1))
             /\ abs' = Tail(abs) /\ Contents' = Tail(Contents)
             /\ size' = size - 1]_vars

\* q_insert_head("10"), q_insert_head("2"), then q_remove_head hands out "2"
\* and leaves ["10"], size 1.
C2_Witness ==
    /\ Live /\ call.op = "remove_head" /\ call.ret /\ call.sp
    /\ buf.str = <<50>> /\ size = 1 /\ Contents = << <<49, 48>> >>

\* C3: q_size is the number of inserts that returned true minus the number
\* of removes that returned true, whatever calls failed in between;
\* q_reverse and q_sort count as neither and leave it alone.
C3_Size == pc # "freed" => q_size = balance

\* One element left after a remove that returned true.
C3_Witness ==
    /\ Live /\ call.op = "remove_head" /\ call.ret /\ size = 1 /\ balance = 1

\* The elements of ord are in order under the comparator merge uses, each
\* with its right neighbour, given the buffer images M.
Sorted(M, ord) ==
    \A k \in 1..(Len(ord) - 1) :
        LET c == compare(M, ord[k], ord[k + 1])
        IN ~c.fault /\ c.res <= 0

\* C4: when q_sort has returned on a queue of at least two elements, every
\* element compares <= 0 with its successor under the comparator merge uses.
C4_Sorted ==
    (Live /\ call.op = "sort" /\ size >= 2) => Sorted(Images(junk), Order)

\* "2", "10", "1 " inserted at the tail and sorted: ["1 ", "2", "10"], the
\* third block first.
C4_Witness ==
    /\ Live /\ call.op = "sort"
    /\ Order = <<3, 1, 2>>
    /\ Contents = << <<49, 32>>, <<50>>, <<49, 48>> >>

\* How many times string s occurs in the sequence c.
Count(c, s) == Cardinality({k \in DOMAIN c : c[k] = s})

\* C5: q_sort only rewrites links: the elements reachable from head are the
\* ones that were, holding the strings they held, nothing is allocated or
\* freed, size is unchanged, and tail is the last element, with no successor.
C5_SortFrame ==
    [][(q # NULL /\ call'.op = "sort" /\ pc' = "run")
       => /\ Range(Order') = Range(Order)
          /\ Len(Order') = Len(Order)
          /\ \A s \in Range(Contents) : Count(Contents', s) = Count(Contents, s)
          /\ value' = value /\ mem' = mem
          /\ nodes' = nodes /\ strs' = strs
          /\ size' = size
          /\ tail' = (IF Order' = <<>> THEN NULL ELSE Order'[Len(Order')])
          /\ tail' # NULL => next'[tail'] = NULL]_vars

\* A sorted queue of three whose last element is the first block.
C5_Witness ==
    /\ Live /\ call.op = "sort" /\ size = 3 /\ tail = 1 /\ head = 3

\* C6: an insert that fails (no queue, or malloc gave NULL for the element
\* or for the string) returns false with head, tail, size and every link as
\* they were, nothing new in the list, and no block left allocated that was
\* not before; with no queue or no room left on the heap it does fail.
C6_FailedInsert ==
    [][(call'.op \in {"insert_head", "insert_tail"})
       => /\ (q = NULL \/ DOMAIN next \ nodes = {}) => ~call'.ret
          /\ ~call'.ret =>
               /\ head' = head /\ tail' = tail /\ size' = size
               /\ next' = next /\ value' = value /\ mem' = mem
               /\ Order' = Order
               /\ nodes' = nodes /\ strs' = strs]_vars

\* A q_insert_tail that failed on a queue of one, with room left on the heap.
C6_Witness ==
    /\ Live /\ call.op = "insert_tail" /\ ~call.ret
    /\ size = 1 /\ Cardinality(nodes) = 1 /\ Cardinality(strs) = 1

\* C7: q_reverse on a non-empty queue turns the list [x1..xn] into [xn..x1]
\* over the same elements: the old head is the tail (with no successor), the
\* old tail is the head, size is unchanged, nothing is allocated or freed.
C7_Reverse ==
    [][(q # NULL /\ head # NULL /\ call'.op = "reverse")
       => /\ Order' = Reverse(Order)
          /\ tail' = head /\ head' = tail
          /\ next'[tail'] = NULL
          /\ size' = size
          /\ value' = value /\ mem' = mem
          /\ nodes' = nodes /\ strs' = strs]_vars

\* Three elements put in at the tail, reversed.
C7_Witness ==
    /\ Live /\ call.op = "reverse" /\ Order = <<3, 2, 1>>
    /\ head = 3 /\ tail = 1

\* C8: q_insert_head(text) and then q_remove_head into a buffer of bufsize
\* >= 1: the remove returns true, the buffer holds the first
\* min(len(text), bufsize - 1) characters of text and then a terminator, and
\* head, tail and size are what they were before the insert.
C8_RoundTrip ==
    [][(call.op = "insert_head" /\ call.ret
         /\ call'.op = "remove_head" /\ call'.sp /\ call'.bufsize >= 1)
       => LET n == Min(Len(call.s), call'.bufsize - 1)
          IN /\ call'.ret
             /\ buf'.str = SubSeq(call.s, 1, n)
             /\ buf'.written = n + 1
             /\ head' = pre.head /\ tail' = pre.tail /\ size' = pre.size]_vars

\* A string of two characters cut to one by a buffer of two, two left.
C8_Witness ==
    /\ Live /\ call.op = "remove_head" /\ call.ret /\ call.sp
    /\ call.bufsize = 2 /\ buf.str = <<49>> /\ buf.written = 2 /\ size = 2

\* C9: q_sort on a queue whose every element compares <= 0 with its
\* successor changes nothing: the order of the elements, head and tail are
\* the same afterwards.
C9_SortedUnchanged ==
    [][(q # NULL /\ call'.op = "sort" /\ pc' = "run"
         /\ Sorted(Images(junk'), Order))
       => /\ Order' = Order
          /\ head' = head /\ tail' = tail]_vars

\* C10, as claimed: the scenario sorted gives the byte-wise order
\* ["1", "10", "2", "20", "3"].
C10_ByteOrder ==
    [][(q # NULL /\ Contents = Scenario /\ call'.op = "sort" /\ pc' = "run")
       => Contents' = << <<49>>, <<49, 48>>, <<50>>, <<50, 48>>, <<51>> >>]_vars

\* C10, as the code has it: q_sort orders by strnatcmp, digit runs compared
\* as numbers, and the scenario sorted gives ["1", "2", "3", "10", "20"].
C10_NaturalOrder ==
    [][(q # NULL /\ Contents = Scenario /\ call'.op = "sort" /\ pc' = "run")
       => Contents' = << <<49>>, <<50>>, <<51>>, <<49, 48>>, <<50, 48>> >>]_vars

\* The scenario sorted: the blocks of "1", "2", "3", "10", "20" in that order.
C10_Witness ==
    /\ Live /\ call.op = "sort" /\ size = 5
    /\ Order = <<2, 3, 1, 4, 5>>
    /\ Contents = << <<49>>, <<50>>, <<51>>, <<49, 48>>, <<50, 48>> >>
\* The number of characters of s before its first digit.
PrefixLen(s) ==
    CHOOSE k \in 0..Len(s) :
        /\ \A i \in 1..k : ~isdigit(s[i])
        /\ k < Len(s) => isdigit(s[k + 1])

\* s from its first digit on.
Digits(s) == SubSeq(s, PrefixLen(s) + 1, Len(s))

\* s is a run of digits that does not start with '0'.
PlainRun(s) == s # <<>> /\ s[1] # 48 /\ \A i \in 1..Len(s) : isdigit(s[i])

\* The number a run of digits writes.
RECURSIVE Num(_)
Num(s) ==
    IF s = <<>> THEN 0
    ELSE 10 * Num(SubSeq(s, 1, Len(s) - 1)) + (s[Len(s)] - 48)

\* a and b are one prefix without digits, each followed by a run of digits
\* without a leading zero and nothing else.
SamePrefixRuns(a, b) ==
    /\ SubSeq(a, 1, PrefixLen(a)) = SubSeq(b, 1, PrefixLen(b))
    /\ PlainRun(Digits(a))
    /\ PlainRun(Digits(b))

\* "1", "2", "3", "10", "20": the scenario in natural order.
ScenarioSorted == << <<49>>, <<50>>, <<51>>, <<49, 48>>, <<50, 48>> >>

\* C11: strnatcmp orders two strings that are the same prefix without digits
\* followed by digit runs without leading zeros by the numbers the runs
\* write: "a2" is below "a10", "a10" is below "a20", and each of "1", "2", "3",
\* "10", "20" is below the ones after it, the order the sort leaves them in.
C11_Numeric ==
    out.op = "strnatcmp" =>
        /\ SamePrefixRuns(cmpA, cmpB) =>
               /\ ~out.fault
               /\ out.res = sign(Num(Digits(cmpA)), Num(Digits(cmpB)))
        /\ cmpA = <<97, 50>> /\ cmpB = <<97, 49, 48>> => out.res = -1
        /\ cmpA = <<97, 49, 48>> /\ cmpB = <<97, 50, 48>> => out.res = -1
        /\ \A i, j \in 1..Len(ScenarioSorted) :
               i < j /\ cmpA = ScenarioSorted[i] /\ cmpB = ScenarioSorted[j]
                   => out.res = -1

C11_Witness ==
    /\ out.op = "strnatcmp"
    /\ cmpA = <<97, 50>>
    /\ cmpB = <<97, 49, 48>>
    /\ SamePrefixRuns(cmpA, cmpB)
    /\ out.res = -1

\* The number of digits s starts with.
RunLen(s) ==
    CHOOSE k \in 0..Len(s) :
        /\ \A i \in 1..k : isdigit(s[i])
        /\ k < Len(s) => ~isdigit(s[k + 1])

\* The positions at which the digit runs that start a and b both have a
\* digit and the digits differ.
DiffAt(a, b) == {k \in 1..Min(RunLen(a), RunLen(b)) : a[k] # b[k]}

\* The first of them.
FirstDiff(a, b) == CHOOSE k \in DiffAt(a, b) : \A m \in DiffAt(a, b) : k <= m

\* C12: when one of the two digit runs starts with '0' and the runs differ at
\* some digit position, compare_int returns the sign of the first differing
\* pair of digits, whatever the lengths of the runs.
C12_FirstDifference ==
    (/\ out.op = "strnatcmp"
     /\ DiffAt(cmpA, cmpB) # {}
     /\ cmpA[1] = 48 \/ cmpB[1] = 48)
        => LET k == FirstDiff(cmpA, cmpB)
               r == compare_int(Image(cmpA, 0), 1, Image(cmpB, 0), 1)
           IN /\ r.res = sign(cmpA[k], cmpB[k])
              /\ out.res = r.res

\* C13: on a NULL queue no operation reads through it or ends the run:
\* q_insert_head, q_insert_tail and q_remove_head return false, q_remove_head
\* leaves *sp alone, q_size returns 0, and q_reverse, q_sort and q_free
\* return with nothing changed.
C13_NullHandle ==
    [][q = NULL =>
          /\ pc' = "run"
          /\ q_size' = 0
          /\ buf' = Untouched
          /\ call'.op \in {"insert_head", "insert_tail", "remove_head"}
                 => ~call'.ret
          /\ UNCHANGED <<q, qrec, heapvars, balance, abs, dblfree>>]_vars

C13_Witness ==
    /\ q = NULL
    /\ pc = "run"
    /\ call.op = "remove_head"
    /\ call.sp
    /\ ~call.ret
    /\ buf = Untouched
    /\ q_size = 0

\* C14: q_remove_head on a queue that is there and holds nothing returns
\* false and changes nothing: head and tail stay NULL, size stays 0, nothing
\* is freed and *sp is not written.
C14_RemoveEmpty ==
    [][(Live /\ size = 0 /\ call'.op = "remove_head") =>
          /\ ~call'.ret
          /\ pc' = "run"
          /\ head' = NULL
          /\ tail' = NULL
          /\ size' = 0
          /\ buf' = Untouched
          /\ UNCHANGED <<q, qrec, heapvars, balance, abs, dblfree>>]_vars

C14_Witness ==
    /\ Live
    /\ size = 0
    /\ head = NULL
    /\ tail = NULL
    /\ call.op = "remove_head"
    /\ call.sp
    /\ ~call.ret
    /\ buf = Untouched

\* C15: every node and every string is freed exactly once.  free is never
\* given a block that is not allocated; while the queue is in use the
\* allocated nodes and strings are the ones in the list; after q_free
\* no node, no string and no queue record is left allocated.
C15_FreedOnce ==
    /\ ~dblfree
    /\ Live => /\ nodes = Range(Order)
               /\ strs = {value[n] : n \in Range(Order)}
               /\ qrec
    /\ pc = "freed" => /\ nodes = {}
                       /\ strs = {}
                       /\ ~qrec

C15_Witness ==
    /\ pc = "freed"
    /\ call.op = "free"
    /\ balance >= 2
    /\ nodes = {}
    /\ strs = {}
    /\ ~qrec
    /\ ~dblfree

\* Where node n stands in the list ord.
Pos(ord, n) == CHOOSE k \in 1..Len(ord) : ord[k] = n

\* The strings of nodes n and m compare equal, whatever follows their buffers.
Ties(n, m) ==
    LET a == mem[value[n]]
        b == mem[value[m]]
        r == strnatcmp(Image(a, 0), Image(b, 0))
    IN ~r.fault /\ ~PastEnd(r, a, b) /\ r.res = 0

\* C16: q_sort is stable: two elements whose strings compare equal stand in
\* the sorted list in the order they stood in before.
C16_Stable ==
    [][(q # NULL /\ call'.op = "sort" /\ pc' = "run")
       => \A i, j \in 1..Len(Order) :
             (i < j /\ Ties(Order[i], Order[j]))
                 => Pos(Order', Order[i]) < Pos(Order', Order[j])]_vars

\* The nodes from h on, following next.
ListFrom(h) == Walk(next, h, Cardinality(DOMAIN next) + 1)

\* C17: split_list on a list of n >= 1 nodes gives as front the first
\* ceil(n/2) nodes in their order, the last of them with next NULL, and as
\* back the other floor(n/2) nodes in their order (NULL when n = 1); when
\* n >= 2 both halves hold a node and fewer than n nodes.
C17_Split ==
    out.op = "split_list" =>
        LET l == out.list
            n == Len(l)
            half == (n + 1) \div 2
            f == ListFrom(out.front)
            b == ListFrom(out.back)
        IN /\ n >= 1
           /\ f = SubSeq(l, 1, half)
           /\ next[f[Len(f)]] = NULL
           /\ b = SubSeq(l, half + 1, n)
           /\ Len(b) = n \div 2
           /\ n = 1 => out.back = NULL
           /\ n >= 2 => /\ f # <<>> /\ b # <<>>
                        /\ Len(f) < n /\ Len(b) < n

C17_Witness ==
    /\ out.op = "split_list"
    /\ Len(out.list) = 5
    /\ Len(ListFrom(out.front)) = 3
    /\ Len(ListFrom(out.back)) = 2

\* C18: strnatcmp and compare_int read no character past the terminator of
\* either string: the highest index read in a string is its terminator's.
C18_InBounds ==
    out.op = "strnatcmp" =>
        /\ ~out.fault
        /\ out.ra <= Len(cmpA) + 1
        /\ out.rb <= Len(cmpB) + 1

\* The result of strnatcmp on a and b when it stays inside both strings.
Clean(a, b) == ~PastEnd(strnatcmp(Image(a, 0), Image(b, 0)), a, b)
Res(a, b) == strnatcmp(Image(a, 0), Image(b, 0)).res

\* C19: strnatcmp is a consistent order: from x <= y and y <= z follows
\* x <= z (each <= being a result of at most 0).
C19_Transitive ==
    (out.op = "strnatcmp" /\ Clean(cmpA, cmpB) /\ out.res <= 0) =>
        \A z \in CmpTexts :
            (/\ Clean(cmpB, z)
             /\ Clean(cmpA, z)
             /\ Res(cmpB, z) <= 0) => Res(cmpA, z) <= 0

\* C20: q_remove_head given a buffer writes inside it only: for every
\* capacity bufsize >= 0 and every stored string the bytes written, the
\* terminator among them, are at most bufsize, each at an index below it.
C20_InsideBuffer ==
    (call.op = "remove_head" /\ call.sp /\ buf # Untouched)
        => buf.written <= call.bufsize

====
